---- MODULE Spec2Model ----
(***************************************************************************)
(* Model of run_bot.py of spi-table-bot: the resolution of a case's        *)
(* categories into display statuses, the scan of the revision history for  *)
(* the last clerk/checkuser, and the batch loop with its final sort.       *)
(***************************************************************************)
EXTENDS Integers, Sequences, FiniteSets, TLC

VARIABLES pc, cat_titles, statuses, result, revisions, clerks, case,
          pages, cu_pages, idx, cases, output

vars == <<pc, cat_titles, statuses, result, revisions, clerks, case,
          pages, cu_pages, idx, cases, output>>

\* ------------------------------------------------------------------------
\* Bounds of the model
\* ------------------------------------------------------------------------
MaxTags == 6
MaxEdits == 3
MaxCases == 3

\* ------------------------------------------------------------------------
\* Generic helpers
\* ------------------------------------------------------------------------
Range(s) == {s[i] : i \in 1..Len(s)}

Reverse(s) == [i \in 1..Len(s) |-> s[Len(s) + 1 - i]]

\* ------------------------------------------------------------------------
\* get_status_from_categories
\* ------------------------------------------------------------------------
MoreInfoTitle == "SPI cases requesting more information"
PreCUTitle == "SPI cases for pre-CheckUser review"

cat2status ==
    [t \in {"SPI cases currently being checked", "SPI cases awaiting a CheckUser",
            "SPI cases relisted for a CheckUser", "SPI cases requesting a checkuser",
            "SPI cases needing an Administrator", "SPI cases needing a Clerk",
            "SPI cases CU complete", "New SPI cases", "SPI cases awaiting review",
            "SPI cases declined for checkuser by CU",
            "SPI cases declined for checkuser by clerk",
            "SPI cases requesting more information",
            "SPI cases on hold by checkuser", "SPI cases on hold by clerk",
            "SPI cases awaiting archive"} |->
        CASE t = "SPI cases currently being checked" -> "inprogress"
          [] t = "SPI cases awaiting a CheckUser" -> "endorsed"
          [] t = "SPI cases relisted for a CheckUser" -> "relist"
          [] t = "SPI cases requesting a checkuser" -> "CUrequest"
          [] t = "SPI cases needing an Administrator" -> "admin"
          [] t = "SPI cases needing a Clerk" -> "clerk"
          [] t = "SPI cases CU complete" -> "checked"
          [] t = "New SPI cases" -> "new"
          [] t = "SPI cases awaiting review" -> "open"
          [] t = "SPI cases declined for checkuser by CU" -> "cudeclined"
          [] t = "SPI cases declined for checkuser by clerk" -> "declined"
          [] t = "SPI cases requesting more information" -> "moreinfo"
          [] t = "SPI cases on hold by checkuser" -> "cuhold"
          [] t = "SPI cases on hold by clerk" -> "hold"
          [] t = "SPI cases awaiting archive" -> "close"]

\* The categories a case page can carry, in the order of their titles (the
\* order in which the category listing returns them): the fifteen mapped
\* ones, the pre-CheckUser review marker and the unmapped parent category.
TitleOrder ==
    << "New SPI cases", "Open SPI cases", "SPI cases CU complete",
       "SPI cases awaiting a CheckUser", "SPI cases awaiting archive",
       "SPI cases awaiting review", "SPI cases currently being checked",
       "SPI cases declined for checkuser by CU",
       "SPI cases declined for checkuser by clerk",
       "SPI cases for pre-CheckUser review", "SPI cases needing a Clerk",
       "SPI cases needing an Administrator", "SPI cases on hold by checkuser",
       "SPI cases on hold by clerk", "SPI cases relisted for a CheckUser",
       "SPI cases requesting a checkuser",
       "SPI cases requesting more information" >>

Titles == Range(TitleOrder)

\* The titles of S as a listing, ascending or descending by title.
Listing(S, descending) ==
    LET asc == SelectSeq(TitleOrder, LAMBDA t : t \in S)
    IN  IF descending THEN Reverse(asc) ELSE asc

priority == {"clerk", "admin", "checked", "close"}

curequest ==
    [s \in {"inprogress", "relist", "endorsed", "CUrequest"} |->
        CASE s = "inprogress" -> 0 [] s = "relist" -> 1
          [] s = "endorsed" -> 2 [] s = "CUrequest" -> 3]

misc ==
    [s \in {"new", "open", "cudeclined", "declined", "cumoreinfo", "moreinfo",
            "cuhold", "hold"} |->
        CASE s = "new" -> 0 [] s = "open" -> 1 [] s = "cudeclined" -> 2
          [] s = "declined" -> 3 [] s = "cumoreinfo" -> 4 [] s = "moreinfo" -> 5
          [] s = "cuhold" -> 6 [] s = "hold" -> 7]

\* Mutant of MapTitle: the compound rule is lost, the table alone decides.
MapTitleNoCompound(title, titles) ==
    IF title \in DOMAIN cat2status THEN <<cat2status[title]>> ELSE <<>>

\* One iteration of the loop over cat_titles: the statuses the title appends.
MapTitle(title, titles) ==
    IF title = MoreInfoTitle /\ PreCUTitle \in Range(titles)
    THEN <<"cumoreinfo">>
    ELSE IF title \in DOMAIN cat2status
         THEN <<cat2status[title]>>
         ELSE <<>>

RECURSIVE MapTitlesFrom(_, _)
MapTitlesFrom(rest, titles) ==
    IF rest = <<>> THEN <<>>
    ELSE MapTitle(Head(rest), titles) \o MapTitlesFrom(Tail(rest), titles)

\* The list `statuses` after the loop over cat_titles.
MapTitles(titles) == MapTitlesFrom(titles, titles)

\* Mutant of MinByRank: the first element instead of the least-ranked one.
MinByRankFirst(list, rank) == list[1]

\* min(list, key=lambda x: rank[x]): the first element of least rank.
MinByRank(list, rank) ==
    LET least == CHOOSE i \in 1..Len(list) :
                    /\ \A j \in 1..Len(list) : rank[list[i]] <= rank[list[j]]
                    /\ \A j \in 1..(i - 1) : rank[list[j]] > rank[list[i]]
    IN  list[least]

\* Mutant of PriorityOnly: the statuses in the order of the priority list.
PriorityOnlyFixedOrder(sts) ==
    SelectSeq(<<"clerk", "admin", "checked", "close">>, LAMBDA s : s \in Range(sts))

\* The statuses the loop over `statuses` appends to result.
PriorityOnly(sts) == SelectSeq(sts, LAMBDA s : s \in priority)

CURequestOnly(sts) ==
    SelectSeq(sts, LAMBDA s : s \notin priority /\ s \in DOMAIN curequest)

MiscOnly(sts) ==
    SelectSeq(sts, LAMBDA s : /\ s \notin priority
                              /\ s \notin DOMAIN curequest
                              /\ s \in DOMAIN misc)

\* Mutant of AppendCURequest: every pipeline status is appended.
AppendCURequestAll(res, sts) == res \o CURequestOnly(sts)

AppendCURequest(res, sts) ==
    IF CURequestOnly(sts) # <<>>
    THEN Append(res, MinByRank(CURequestOnly(sts), curequest))
    ELSE res

\* Mutant of MiscAllowed: misc is shown only next to an empty result.
MiscAllowedEmptyOnly(res) == Len(res) = 0

MiscAllowed(res) == Len(res) = 0 \/ (Len(res) = 1 /\ res[1] = "close")

AppendMisc(res, sts) ==
    IF MiscOnly(sts) # <<>> /\ MiscAllowed(res)
    THEN Append(res, MinByRank(MiscOnly(sts), misc))
    ELSE res

\* The list `result` the function returns for the mapped statuses.
SelectStatuses(sts) == AppendMisc(AppendCURequest(PriorityOnly(sts), sts), sts)

get_status_from_categories(titles) == SelectStatuses(MapTitles(titles))

\* ------------------------------------------------------------------------
\* Strings whose characters matter are sequences of code points
\* ------------------------------------------------------------------------
\* str.lower() on ASCII text
Lower(str) == [i \in 1..Len(str) |-> IF str[i] >= 65 /\ str[i] <= 90
                                      THEN str[i] + 32 ELSE str[i]]

\* sub in str
Contains(sub, str) ==
    \E k \in 0..(Len(str) - Len(sub)) :
        \A i \in 1..Len(sub) : str[k + i] = sub[i]

\* a < b as Python compares two str values
StrLess(a, b) ==
    \/ \E k \in 1..Len(a) :
          /\ k <= Len(b)
          /\ \A i \in 1..(k - 1) : a[i] = b[i]
          /\ a[k] < b[k]
    \/ /\ Len(a) < Len(b)
       /\ \A i \in 1..Len(a) : a[i] = b[i]

archiv == <<97, 114, 99, 104, 105, 118>>
moving_case == <<109, 111, 118, 105, 110, 103, 32, 99, 97, 115, 101>>
Unknown == <<85, 110, 107, 110, 111, 119, 110>>
EmptyStr == <<>>

\* timestamp.strftime('%Y-%m-%d %H:%M'): a timestamp is a count of seconds,
\* the text is its count of minutes in two digits (the seconds are dropped).
Strftime(t) == <<48 + ((t \div 60) \div 10), 48 + ((t \div 60) % 10)>>

\* ------------------------------------------------------------------------
\* get_case_details
\* ------------------------------------------------------------------------
Users == {"Mz7", "Asilvering", "Editor"}

LOWERCASE_USERNAMES == {"Asilvering"}

\* the easter egg: a user name of LOWERCASE_USERNAMES is lowercased
LowercaseEasterEgg(user) ==
    IF user \in LOWERCASE_USERNAMES THEN "asilvering" ELSE user

\* the edit summaries of the modelled histories:
\* 'comment', 'Archiving', 'MOVING CASE', 'moving'
Comments ==
    { <<99, 111, 109, 109, 101, 110, 116>>,
      <<65, 114, 99, 104, 105, 118, 105, 110, 103>>,
      <<77, 79, 86, 73, 78, 71, 32, 67, 65, 83, 69>>,
      <<109, 111, 118, 105, 110, 103>> }

\* The time of the edit at position i (newest first) of a history of n edits.
EditTime(i, n) == 90 * (n + 1 - i)

\* 'archiv' in lowercase_edit_summary or 'moving case' in lowercase_edit_summary
IsBoundary(comment) ==
    Contains(archiv, Lower(comment)) \/ Contains(moving_case, Lower(comment))

NoClerk == [last_clerk |-> "", last_clerk_time |-> EmptyStr]

\* The loop `for rev in revisions` over the edits after the newest one.
RECURSIVE ScanRevisions(_, _)
ScanRevisions(revs, cl) ==
    IF revs = <<>> THEN NoClerk
    ELSE LET rev == Head(revs)
         IN  IF IsBoundary(rev.comment) THEN NoClerk
             ELSE IF rev.user \in cl
                  THEN [last_clerk |-> rev.user,
                        last_clerk_time |-> Strftime(rev.timestamp)]
                  ELSE ScanRevisions(Tail(revs), cl)

\* last clerk/checkuser and time, for a history with at least one edit
LastClerk(revs, cl) ==
    LET last_rev == Head(revs)
    IN  IF last_rev.user \in cl
        THEN [last_clerk |-> last_rev.user,
              last_clerk_time |-> Strftime(last_rev.timestamp)]
        ELSE ScanRevisions(Tail(revs), cl)

\* A line of the page text is the sequence of the times of the signatures
\* in it; timestripper finds none in a line without a signature.
NoSignature == <<>>

RECURSIVE FileTime(_)
FileTime(case_lines) ==
    IF case_lines = <<>> THEN Unknown
    ELSE IF Head(case_lines) # NoSignature THEN Strftime(Head(case_lines)[1])
         ELSE FileTime(Tail(case_lines))

\* A page title is its namespace part and the rest after the first '/'.
CaseName(title) ==
    IF title.spi THEN <<title.rest>> ELSE <<"link=", title.rest, title.rest>>

\* `case = {}`, before any key is set
NoCase == [name |-> <<>>]

StopIteration == [exception |-> "StopIteration"]

\* get_case_details(case_page, clerks): the case record, whose status is
\* still the list of statuses, or StopIteration out of next(revisions).
get_case_details(case_page, cl) ==
    IF case_page.revisions = <<>> THEN StopIteration
    ELSE LET last_rev == Head(case_page.revisions)
             lc == LastClerk(case_page.revisions, cl)
         IN  [name |-> CaseName(case_page.title),
              status |-> get_status_from_categories(case_page.categories),
              file_time |-> FileTime(case_page.text),
              last_user |-> LowercaseEasterEgg(last_rev.user),
              last_user_time |-> Strftime(last_rev.timestamp),
              last_clerk |-> LowercaseEasterEgg(lc.last_clerk),
              last_clerk_time |-> lc.last_clerk_time]

\* ------------------------------------------------------------------------
\* sort_cases
\* ------------------------------------------------------------------------
rank ==
    [s \in {"inprogress", "endorsed", "relist", "QUICK", "CUrequest", "admin",
            "clerk", "checked", "new", "open", "cudeclined", "declined",
            "cumoreinfo", "moreinfo", "cuhold", "hold", "close"} |->
        CASE s = "inprogress" -> 0 [] s = "endorsed" -> 1 [] s = "relist" -> 2
          [] s = "QUICK" -> 3 [] s = "CUrequest" -> 4 [] s = "admin" -> 5
          [] s = "clerk" -> 6 [] s = "checked" -> 7 [] s = "new" -> 8
          [] s = "open" -> 9 [] s = "cudeclined" -> 10 [] s = "declined" -> 11
          [] s = "cumoreinfo" -> 12 [] s = "moreinfo" -> 13 [] s = "cuhold" -> 14
          [] s = "hold" -> 15 [] s = "close" -> 16]

\* (rank[a.status], a.file_time) < (rank[b.status], b.file_time)
KeyLess(a, b) ==
    \/ rank[a.status] < rank[b.status]
    \/ /\ rank[a.status] = rank[b.status]
       /\ StrLess(a.file_time, b.file_time)

InsertAt(list, k, x) == SubSeq(list, 1, k) \o <<x>> \o SubSeq(list, k + 1, Len(list))

\* Mutant of InsertSorted: x goes before the records of equal key.
InsertSortedBeforeEqual(sorted, x) ==
    InsertAt(sorted, Cardinality({i \in 1..Len(sorted) : KeyLess(sorted[i], x)}), x)

\* x is placed behind every record whose key is not greater than its own.
InsertSorted(sorted, x) ==
    InsertAt(sorted, Cardinality({i \in 1..Len(sorted) : ~KeyLess(x, sorted[i])}), x)

RECURSIVE SortFrom(_, _)
SortFrom(sorted, rest) ==
    IF rest = <<>> THEN sorted
    ELSE SortFrom(InsertSorted(sorted, Head(rest)), Tail(rest))

\* sorted(cases, key=...): a stable sort, by insertion from left to right
sort_cases(list) == SortFrom(<<>>, list)

\* ------------------------------------------------------------------------
\* get_all_cases and get_cu_needed_templates
\* ------------------------------------------------------------------------
\* Mutant of FanOut: a case is listed once, under its first status.
FanOutFirstOnly(c) ==
    IF Len(c.status) >= 1 THEN <<[c EXCEPT !.status = c.status[1]]>> ELSE <<>>

\* The records the loop body appends for the details of one case; the
\* IndexError of an empty status list is caught and nothing is appended.
FanOut(c) ==
    IF Len(c.status) > 1
    THEN [i \in 1..Len(c.status) |-> [c EXCEPT !.status = c.status[i]]]
    ELSE IF Len(c.status) = 1
         THEN <<[c EXCEPT !.status = c.status[1]]>>
         ELSE <<>>

CUNeededRecord(page) ==
    [name |-> <<"link=", page.title, "#checkuser_needed|CU needed: ", page.title>>,
     status |-> "QUICK",
     file_time |-> Strftime(page.editTime),
     last_user |-> "", last_user_time |-> EmptyStr,
     last_clerk |-> "", last_clerk_time |-> EmptyStr]

RECURSIVE get_cu_needed_templates(_)
get_cu_needed_templates(gen) ==
    IF gen = <<>> THEN <<>>
    ELSE IF Head(gen).namespace = 2 \/ Head(gen).namespace = 10
         THEN get_cu_needed_templates(Tail(gen))
         ELSE <<CUNeededRecord(Head(gen))>> \o get_cu_needed_templates(Tail(gen))

\* ------------------------------------------------------------------------
\* The inputs of the model
\* ------------------------------------------------------------------------
\* Category listings of at most MaxTags titles
CategoryListings ==
    {Listing(S, d) : S \in {T \in SUBSET Titles : Cardinality(T) <= MaxTags},
                     d \in BOOLEAN}

Edit(user, comment, i, n) ==
    [user |-> user, comment |-> comment, timestamp |-> EditTime(i, n)]

\* The history of n edits, newest first, of the users and summaries h
History(h, n) == [i \in 1..n |-> Edit(h[i][1], h[i][2], i, n)]

\* The title of the i-th page of the category: a case of the SPI namespace,
\* or (every second one) a case page outside of it.
PageTitle(i) == [spi |-> i % 2 = 1, rest |-> i]

\* The snapshots a page of the batch is drawn from: no mapped category, an
\* archived case, a case being checked, a case with two statuses; a page
\* whose history cannot be read or one with two edits; a text without or
\* with signatures.
BatchCategories ==
    { Listing({"Open SPI cases"}, FALSE),
      Listing({"SPI cases awaiting archive"}, FALSE),
      Listing({"SPI cases currently being checked"}, FALSE),
      Listing({"SPI cases needing a Clerk", "SPI cases requesting a checkuser"}, FALSE) }

BatchHistories ==
    { <<>>,
      <<Edit("Editor", <<99, 111, 109, 109, 101, 110, 116>>, 1, 2),
        Edit("Mz7", <<99, 111, 109, 109, 101, 110, 116>>, 2, 2)>> }

BatchTexts == { <<NoSignature>>, <<NoSignature, <<150>>, <<400>>>> }

\* The batch of n pages of the snapshots b
Batch(b, n) ==
    [i \in 1..n |-> [title |-> PageTitle(i), categories |-> b[i][1],
                     revisions |-> b[i][2], text |-> b[i][3]]]

\* The pages of Category:Requests for checkuser
CUPageListings ==
    { <<>>,
      <<[title |-> "User:Example", namespace |-> 2, editTime |-> 200],
        [title |-> "Wikipedia:ANI", namespace |-> 4, editTime |-> 150]>> }

\* ------------------------------------------------------------------------
\* Specification of get_status_from_categories over every category listing
\* ------------------------------------------------------------------------
InitStatus ==
    /\ pc = "map"
    /\ cat_titles \in CategoryListings
    /\ statuses = <<>> /\ result = <<>>
    /\ revisions = <<>> /\ clerks = {} /\ case = NoCase
    /\ pages = <<>> /\ cu_pages = <<>> /\ idx = 1 /\ cases = <<>> /\ output = <<>>

\* the loop over cat_titles
MapCategories ==
    /\ pc = "map"
    /\ statuses' = MapTitles(cat_titles)
    /\ pc' = "choose"
    /\ UNCHANGED <<cat_titles, result, revisions, clerks, case, pages, cu_pages,
                   idx, cases, output>>

\* the loop over statuses and the two appends behind it
ChooseStatuses ==
    /\ pc = "choose"
    /\ result' = SelectStatuses(statuses)
    /\ pc' = "status_done"
    /\ UNCHANGED <<cat_titles, statuses, revisions, clerks, case, pages, cu_pages,
                   idx, cases, output>>

NextStatus == MapCategories \/ ChooseStatuses

SpecStatus == InitStatus /\ [][NextStatus]_vars

\* ------------------------------------------------------------------------
\* Specification of get_case_details over every history and clerk set
\* ------------------------------------------------------------------------
InitDetails ==
    /\ pc = "details"
    /\ \E n \in 0..MaxEdits : \E h \in [1..n -> Users \X Comments] :
          revisions = History(h, n)
    /\ clerks \in SUBSET Users
    /\ case = NoCase
    /\ cat_titles = <<>> /\ statuses = <<>> /\ result = <<>>
    /\ pages = <<>> /\ cu_pages = <<>> /\ idx = 1 /\ cases = <<>> /\ output = <<>>

ScanPage ==
    [title |-> PageTitle(1),
     categories |-> Listing({"SPI cases awaiting review"}, FALSE),
     revisions |-> revisions,
     text |-> <<NoSignature>>]

\* get_case_details returns the case record
GetCaseDetails ==
    /\ pc = "details"
    /\ get_case_details(ScanPage, clerks) # StopIteration
    /\ case' = get_case_details(ScanPage, clerks)
    /\ pc' = "details_done"
    /\ UNCHANGED <<cat_titles, statuses, result, revisions, clerks, pages,
                   cu_pages, idx, cases, output>>

\* next(revisions) raises out of get_case_details
GetCaseDetailsRaises ==
    /\ pc = "details"
    /\ get_case_details(ScanPage, clerks) = StopIteration
    /\ pc' = "details_raised"
    /\ UNCHANGED <<cat_titles, statuses, result, revisions, clerks, case, pages,
                   cu_pages, idx, cases, output>>

NextDetails == GetCaseDetails \/ GetCaseDetailsRaises

SpecDetails == InitDetails /\ [][NextDetails]_vars

\* ------------------------------------------------------------------------
\* Specification of get_all_cases over batches of pages
\* ------------------------------------------------------------------------
InitBatch ==
    /\ pc = "loop"
    /\ \E n \in 0..MaxCases :
          \E b \in [1..n -> BatchCategories \X BatchHistories \X BatchTexts] :
              pages = Batch(b, n)
    /\ cu_pages \in CUPageListings
    /\ clerks = {"Mz7"}
    /\ idx = 1 /\ cases = <<>> /\ output = <<>>
    /\ cat_titles = <<>> /\ statuses = <<>> /\ result = <<>>
    /\ revisions = <<>> /\ case = NoCase

\* one iteration of `for page in gen` that runs to its end
ProcessPage ==
    /\ pc = "loop"
    /\ idx <= Len(pages)
    /\ get_case_details(pages[idx], clerks) # StopIteration
    /\ cases' = cases \o FanOut(get_case_details(pages[idx], clerks))
    /\ idx' = idx + 1
    /\ UNCHANGED <<pc, cat_titles, statuses, result, revisions, clerks, case,
                   pages, cu_pages, output>>

\* one iteration in which get_case_details raises: nothing in get_all_cases
\* or in main catches it and the run ends without a table
ProcessPageRaises ==
    /\ pc = "loop"
    /\ idx <= Len(pages)
    /\ get_case_details(pages[idx], clerks) = StopIteration
    /\ pc' = "raised"
    /\ UNCHANGED <<cat_titles, statuses, result, revisions, clerks, case,
                   pages, cu_pages, idx, cases, output>>

\* cases += get_cu_needed_templates()
AddCUNeeded ==
    /\ pc = "loop"
    /\ idx > Len(pages)
    /\ cases' = cases \o get_cu_needed_templates(cu_pages)
    /\ pc' = "sort"
    /\ UNCHANGED <<cat_titles, statuses, result, revisions, clerks, case,
                   pages, cu_pages, idx, output>>

\* return sort_cases(cases)
SortCases ==
    /\ pc = "sort"
    /\ output' = sort_cases(cases)
    /\ pc' = "done"
    /\ UNCHANGED <<cat_titles, statuses, result, revisions, clerks, case,
                   pages, cu_pages, idx, cases>>

NextBatch == ProcessPage \/ ProcessPageRaises \/ AddCUNeeded \/ SortCases

SpecBatch == InitBatch /\ [][NextBatch]_vars

\* ------------------------------------------------------------------------
\* The tables the properties are stated against
\* ------------------------------------------------------------------------
AlwaysShown == <<"admin", "clerk", "checked", "close">>
Pipeline == <<"inprogress", "relist", "endorsed", "CUrequest">>
MiscClass == <<"new", "open", "cudeclined", "declined", "cumoreinfo", "moreinfo",
               "cuhold", "hold">>
StatusOrder == <<"inprogress", "endorsed", "relist", "QUICK", "CUrequest", "admin",
                 "clerk", "checked", "new", "open", "cudeclined", "declined",
                 "cumoreinfo", "moreinfo", "cuhold", "hold", "close">>

\* The rank of x in a table: its position, counted from 0
RankIn(table, x) == (CHOOSE i \in 1..Len(table) : table[i] = x) - 1

Positions(list, S) == {i \in 1..Len(list) : list[i] \in S}

Count(list, x) == Cardinality({i \in 1..Len(list) : list[i] = x})

\* The statuses the present titles are mapped to
Mapped == Range(statuses)

\* C1: a misc status is appended if and only if one was mapped and the
\* always-shown and pipeline statuses make up an empty result or exactly
\* [close]; the appended one is the mapped misc status of lowest rank, it is
\* the only misc status of the result and its last element.
C1_MiscIffEmptyOrClose ==
    pc = "status_done" =>
        LET miscMapped == Mapped \cap Range(MiscClass)
            emptyOrClose == /\ Mapped \cap Range(Pipeline) = {}
                            /\ Mapped \cap Range(AlwaysShown) \subseteq {"close"}
            inResult == Positions(result, Range(MiscClass))
        IN  IF miscMapped # {} /\ emptyOrClose
            THEN /\ inResult = {Len(result)}
                 /\ result[Len(result)] \in miscMapped
                 /\ \A m \in miscMapped :
                       RankIn(MiscClass, result[Len(result)]) <= RankIn(MiscClass, m)
            ELSE inResult = {}

\* a misc status is shown behind close
C1_Witness ==
    /\ pc = "status_done"
    /\ Len(result) = 2 /\ result[1] = "close" /\ result[2] = "declined"
    /\ "hold" \in Mapped

\* The pipeline statuses of the present titles
PipelinePresent ==
    {cat2status[t] : t \in Range(cat_titles) \cap DOMAIN cat2status}
        \cap Range(Pipeline)

\* C2: the result holds at most one pipeline status, one exactly when a
\* pipeline title is present, and then the present one of lowest rank; the
\* titles of clerk, close, endorsed, CUrequest and open resolve to exactly
\* the three statuses clerk, close and endorsed.
C2_OnePipelineStatus ==
    pc = "status_done" =>
        LET inResult == Positions(result, Range(Pipeline))
        IN  /\ Cardinality(inResult) <= 1
            /\ (inResult # {}) <=> (PipelinePresent # {})
            /\ \A i \in inResult :
                  /\ result[i] \in PipelinePresent
                  /\ \A q \in PipelinePresent :
                        RankIn(Pipeline, result[i]) <= RankIn(Pipeline, q)
            /\ Range(cat_titles) =
                  {"SPI cases needing a Clerk", "SPI cases awaiting archive",
                   "SPI cases awaiting a CheckUser", "SPI cases requesting a checkuser",
                   "SPI cases awaiting review"}
               => /\ Len(result) = 3
                  /\ Range(result) = {"clerk", "close", "endorsed"}

\* the docstring's case, and a case where the least pipeline status is not
\* the first one mapped
C2_Witness ==
    /\ pc = "status_done"
    /\ Cardinality(PipelinePresent) >= 2
    /\ "endorsed" \in Range(result)
    /\ statuses[1] = "CUrequest"

\* The always-shown statuses of the present titles, in the order of the titles
AlwaysShownByTitle ==
    LET present == SelectSeq(cat_titles,
                       LAMBDA t : /\ t \in DOMAIN cat2status
                                  /\ cat2status[t] \in Range(AlwaysShown))
    IN  [i \in 1..Len(present) |-> cat2status[present[i]]]

AlwaysShownOfResult == SelectSeq(result, LAMBDA s : s \in Range(AlwaysShown))

\* C3 (as claimed): every always-shown status whose title is present is in the
\* result, and these appear in the order admin, clerk, checked, close whatever
\* the order of the titles.
C3_FixedOrder ==
    pc = "status_done" =>
        AlwaysShownOfResult =
            SelectSeq(AlwaysShown, LAMBDA s : s \in Range(AlwaysShownByTitle))

\* C3 (amended): every always-shown status whose title is present is in the
\* result exactly once, and these appear in the order of their titles in the
\* listing of the case's categories.
C3_TitleOrder ==
    pc = "status_done" => AlwaysShownOfResult = AlwaysShownByTitle

\* all four always-shown statuses, in an order that is not the claimed one
C3_Witness ==
    /\ pc = "status_done"
    /\ AlwaysShownOfResult = <<"checked", "close", "clerk", "admin">>

\* C4 (as claimed): the result has at most 4 elements.
C4_AtMostFour == pc = "status_done" => Len(result) <= 4

\* C4 (amended): the result has between 0 and 5 elements: up to four
\* always-shown statuses and one pipeline status.
C4_AtMostFive == pc = "status_done" => Len(result) <= 5

\* five statuses out of six titles
C4_Witness ==
    /\ pc = "status_done"
    /\ Len(result) = 5
    /\ Len(cat_titles) = MaxTags

\* C5: with the titles of 'requesting more information' and of 'pre-CheckUser
\* review' both present, moreinfo is not in the result, and the former title
\* is mapped to cumoreinfo once and to moreinfo not at all.
C5_CUMoreInfo ==
    (pc \in {"choose", "status_done"}
        /\ {MoreInfoTitle, PreCUTitle} \subseteq Range(cat_titles)) =>
            /\ "moreinfo" \notin Range(result)
            /\ Count(statuses, "moreinfo") = 0
            /\ Count(statuses, "cumoreinfo") = 1

C5_Witness ==
    /\ pc = "status_done"
    /\ {MoreInfoTitle, PreCUTitle} \subseteq Range(cat_titles)
    /\ result = <<"cumoreinfo">>

\* The edit at position p of the history is the one credited as last
\* clerk: the times of the edits of a history differ to the minute.
Credited(p) ==
    /\ case.last_clerk = LowercaseEasterEgg(revisions[p].user)
    /\ case.last_clerk_time = Strftime(revisions[p].timestamp)

\* C6: no edit older than an edit whose summary holds a boundary phrase is
\* credited as last clerk, also when the boundary edit is the newest edit.
C6_NoneOlderThanBoundary ==
    pc = "details_done" =>
        \A i \in 1..Len(revisions) : \A p \in 1..Len(revisions) :
            (i < p /\ IsBoundary(revisions[i].comment)) => ~Credited(p)

\* C7: when the summary of the newest edit holds a boundary phrase, the
\* empty pair is returned, whoever wrote the newest and the older edits.
C7_NewestBoundaryGivesEmptyPair ==
    (pc = "details_done" /\ IsBoundary(revisions[1].comment)) =>
        /\ case.last_clerk = ""
        /\ case.last_clerk_time = EmptyStr

\* The details of the i-th page of the batch
Details(i) == get_case_details(pages[i], clerks)

\* The building of the i-th page's records fails: the history step raises
\* or the status list is empty.
Fails(i) == Details(i) = StopIteration \/ Details(i).status = <<>>

\* The records the i-th page is to be listed with
RecordsOf(i) ==
    {[Details(i) EXCEPT !.status = s] : s \in Range(Details(i).status)}

\* C8: when get_all_cases has ended, the records of every case whose
\* building did not fail and the QUICK records are in the sorted output,
\* whichever other case of the batch failed.
C8_OtherCasesSurvive ==
    pc \in {"done", "raised"} =>
        /\ \A i \in 1..Len(pages) : ~Fails(i) => RecordsOf(i) \subseteq Range(output)
        /\ \A q \in 1..Len(cu_pages) :
              cu_pages[q].namespace \notin {2, 10} =>
                  \E r \in Range(output) :
                      r.status = "QUICK" /\ r.name[2] = cu_pages[q].title

\* The key of a record is less than that of another
KeyBefore(a, b) ==
    \/ RankIn(StatusOrder, a.status) < RankIn(StatusOrder, b.status)
    \/ /\ a.status = b.status
       /\ StrLess(a.file_time, b.file_time)

SameKey(a, b) == a.status = b.status /\ a.file_time = b.file_time

\* C9: the output of sort_cases is a permutation of its input, ascending by
\* (rank of status, file_time as a plain string), and records of equal key
\* keep the order they had in the input.
C9_StableSort ==
    pc = "done" =>
        /\ Len(output) = Len(cases)
        /\ \A r \in Range(cases) \cup Range(output) : Count(output, r) = Count(cases, r)
        /\ \A i \in 1..Len(output) : \A j \in 1..Len(output) :
              i < j => ~KeyBefore(output[j], output[i])
        /\ \A r \in Range(cases) :
              SelectSeq(output, LAMBDA x : SameKey(x, r))
                  = SelectSeq(cases, LAMBDA x : SameKey(x, r))

\* two records of equal key and different names were sorted, a record of
\* unknown file time stands behind one of the same status with a time, and
\* the sort moved a record
C9_Witness ==
    /\ pc = "done"
    /\ output # cases
    /\ \E i \in 1..Len(cases) : \E j \in 1..Len(cases) :
          i < j /\ SameKey(cases[i], cases[j]) /\ cases[i].name # cases[j].name
    /\ \E i \in 1..Len(output) : \E j \in 1..Len(output) :
          /\ i < j /\ output[i].status = output[j].status
          /\ output[i].file_time # Unknown /\ output[j].file_time = Unknown

RECURSIVE SumOfK(_)
SumOfK(n) == IF n = 0 THEN 0 ELSE SumOfK(n - 1) + Len(Details(n).status)

\* C10: a case of k statuses contributes k records, one per status and equal
\* in every other field, a case of no status none, and the batch goes on:
\* the output has (sum of k) + (number of QUICK records) rows.
C10_FanOut ==
    /\ pc = "loop" => Len(cases) = SumOfK(idx - 1)
    /\ pc = "done" =>
          /\ Len(output) = SumOfK(Len(pages)) + Count([i \in 1..Len(output) |->
                                                        output[i].status], "QUICK")
          /\ \A i \in 1..Len(pages) :
                /\ RecordsOf(i) \subseteq Range(output)
                /\ Cardinality({n \in 1..Len(output) :
                                   output[n].name = Details(i).name})
                      = Len(Details(i).status)
          /\ ( /\ [i \in 1..Len(pages) |-> Details(i).status]
                    = << <<"close">>, <<"inprogress">>, <<>> >>
               /\ cu_pages # <<>> )
             => [i \in 1..Len(output) |-> output[i].status]
                    = <<"inprogress", "QUICK", "close">>

\* a batch of a case of two statuses, a case of one and a case of none, with
\* a QUICK record: four rows
C10_Witness ==
    /\ pc = "done"
    /\ Len(pages) = 3
    /\ Details(1).status = <<"clerk", "CUrequest">>
    /\ Details(2).status = <<"close">>
    /\ Details(3).status = <<>>
    /\ [i \in 1..Len(output) |-> output[i].status]
          = <<"QUICK", "CUrequest", "clerk", "close">>

====
